---- MODULE Spec2Model ----
(***************************************************************************)
(* A model of moenster's glob matcher (src/lib.rs).                        *)
(*                                                                         *)
(* Patterns and subjects are sequences of byte values (0..255).  The       *)
(* matcher stringmatch_bytes is a pure function; it is modelled as a       *)
(* recursive operator that follows the code branch by branch.  A Rust      *)
(* slice index out of bounds is a panic, which the model reports as the    *)
(* result value Panic instead of a boolean.                                *)
(***************************************************************************)
EXTENDS Integers, Sequences, FiniteSets, TLC

\* ------------------------------------------------------------------------
\* Bytes the code compares against (ASCII values of the byte literals).
\* ------------------------------------------------------------------------
STAR == 42
QMARK == 63
LBRACKET == 91
BACKSLASH == 92
RBRACKET == 93
CARET == 94
DASH == 45

\* enum Case
Sensitive == "Sensitive"
Insensitive == "Insensitive"
Case == {Sensitive, Insensitive}

\* Outcomes of one call: the two booleans, or a panic of the slice index.
RTrue == "true"
RFalse == "false"
Panic == "panic"

\* &s[n..] for n <= s.len()
DropN(s, n) == SubSeq(s, n + 1, Len(s))

\* u8::to_ascii_lowercase
to_ascii_lowercase(b) == IF b >= 65 /\ b <= 90 THEN b + 32 ELSE b

\* The final expression: pattern.is_empty() && string.is_empty()
Finish(pattern, string) ==
    IF Len(pattern) = 0 /\ Len(string) = 0 THEN RTrue ELSE RFalse

\* StarCollapse with the slice taken one byte too far (&pattern[2..]).
RECURSIVE StarCollapse_SliceTwo(_)
StarCollapse_SliceTwo(pattern) ==
    IF Len(pattern) > 2 /\ pattern[2] = STAR
    THEN StarCollapse_SliceTwo(DropN(pattern, 2))
    ELSE pattern

\* while pattern.len() > 2 && pattern[1] == b'*' { pattern = &pattern[1..]; }
RECURSIVE StarCollapse(_)
StarCollapse(pattern) ==
    IF Len(pattern) > 2 /\ pattern[2] = STAR
    THEN StarCollapse(DropN(pattern, 1))
    ELSE pattern

\* while !pattern.is_empty() && pattern[0] == b'*' { pattern = &pattern[1..]; }
RECURSIVE SkipStars(_)
SkipStars(pattern) ==
    IF Len(pattern) # 0 /\ pattern[1] = STAR
    THEN SkipStars(DropN(pattern, 1))
    ELSE pattern

\* RangeMatch without the swap of reversed endpoints.
RangeMatch_NoSwap(start0, end0, c0, case) ==
    LET start == IF case = Insensitive THEN to_ascii_lowercase(start0) ELSE start0
        end == IF case = Insensitive THEN to_ascii_lowercase(end0) ELSE end0
        c == IF case = Insensitive THEN to_ascii_lowercase(c0) ELSE c0
    IN  c >= start /\ c <= end

\* The range member `start-end` of a bracket class against subject byte c0.
RangeMatch(start0, end0, c0, case) ==
    LET swap == start0 > end0
        start1 == IF swap THEN end0 ELSE start0
        end1 == IF swap THEN start0 ELSE end0
        start == IF case = Insensitive THEN to_ascii_lowercase(start1) ELSE start1
        end == IF case = Insensitive THEN to_ascii_lowercase(end1) ELSE end1
        c == IF case = Insensitive THEN to_ascii_lowercase(c0) ELSE c0
    IN  c >= start /\ c <= end

\* The single-byte member of a bracket class against subject byte c.
MemberMatch(p, c, case) ==
    IF case = Sensitive
    THEN p = c
    ELSE to_ascii_lowercase(p) # to_ascii_lowercase(c)

\* The escaped member `\p` of a bracket class against subject byte c.
EscapedMemberMatch(p, c) == p = c

\* The comparison of the `_` arm: literal byte p against subject byte c.
LiteralMatch(p, c, case) ==
    IF case = Sensitive
    THEN p = c
    ELSE to_ascii_lowercase(p) = to_ascii_lowercase(c)

\* The `loop` of the `[` arm.  pattern stands after `[` and `^`; the result
\* is the pattern where the loop breaks (at `]` or at the end) and the flag.
RECURSIVE BracketScan(_, _, _, _)
BracketScan(pattern, c, case, matched) ==
    IF Len(pattern) = 0
    THEN [pattern |-> pattern, matched |-> matched]
    ELSE IF pattern[1] = BACKSLASH /\ Len(pattern) >= 2
    THEN BracketScan(DropN(pattern, 2), c, case,
                     matched \/ EscapedMemberMatch(pattern[2], c))
    ELSE IF pattern[1] = RBRACKET
    THEN [pattern |-> pattern, matched |-> matched]
    ELSE IF Len(pattern) >= 3 /\ pattern[2] = DASH
    THEN BracketScan(DropN(pattern, 3), c, case,
                     matched \/ RangeMatch(pattern[1], pattern[3], c, case))
    ELSE BracketScan(DropN(pattern, 1), c, case,
                     matched \/ MemberMatch(pattern[1], c, case))

\* if not { matched = !matched; }
Negate(not, matched) == IF not THEN ~matched ELSE matched

RECURSIVE stringmatch_bytes(_, _, _)

\* The end of one iteration of the outer loop: step over the token's last
\* byte unless the pattern ran out, and when the subject is exhausted skip
\* the trailing stars and leave the loop.
Advance(pattern, string, case) ==
    LET p1 == IF Len(pattern) # 0 THEN DropN(pattern, 1) ELSE pattern
    IN  IF Len(string) = 0
        THEN Finish(SkipStars(p1), string)
        ELSE stringmatch_bytes(p1, string, case)

\* StarTrials with the subject advanced before the first trial, so that the
\* split point "star matches nothing" is lost.
RECURSIVE StarTrials_AdvanceFirst(_, _, _)
StarTrials_AdvanceFirst(rest, string, case) ==
    IF Len(string) <= 1
    THEN RFalse
    ELSE LET r == stringmatch_bytes(rest, DropN(string, 1), case)
         IN  IF r = RTrue THEN RTrue
             ELSE IF r = Panic THEN Panic
             ELSE StarTrials_AdvanceFirst(rest, DropN(string, 1), case)

\* The backtracking loop of the `*` arm: try the rest of the pattern on every
\* non-empty suffix of the subject, longest first.
RECURSIVE StarTrials(_, _, _)
StarTrials(rest, string, case) ==
    IF Len(string) = 0
    THEN RFalse
    ELSE LET r == stringmatch_bytes(rest, string, case)
         IN  IF r = RTrue THEN RTrue
             ELSE IF r = Panic THEN Panic
             ELSE StarTrials(rest, DropN(string, 1), case)

\* The `*` arm.
StarArm(pattern, string, case) ==
    LET p == StarCollapse(pattern)
    IN  IF Len(p) = 1
        THEN RTrue
        ELSE StarTrials(DropN(p, 1), string, case)

\* QuestionArm that forgets to consume the subject byte.
QuestionArm_NoConsume(pattern, string, case) ==
    Advance(pattern, string, case)

\* The `?` arm.
QuestionArm(pattern, string, case) ==
    Advance(pattern, DropN(string, 1), case)

\* The `[` arm.  pattern[0] after the `[` is read without a length check.
BracketArm(pattern, string, case) ==
    LET p1 == DropN(pattern, 1)
    IN  IF Len(p1) = 0
        THEN Panic
        ELSE LET not == p1[1] = CARET
                 p2 == IF not THEN DropN(p1, 1) ELSE p1
                 scan == BracketScan(p2, string[1], case, FALSE)
             IN  IF ~Negate(not, scan.matched)
                 THEN RFalse
                 ELSE Advance(scan.pattern, DropN(string, 1), case)

\* LiteralArm that does not step over the escaping backslash.
LiteralArm_NoEscape(pattern, string, case) ==
    IF ~LiteralMatch(pattern[1], string[1], case)
    THEN RFalse
    ELSE Advance(pattern, DropN(string, 1), case)

\* The `_` arm.
LiteralArm(pattern, string, case) ==
    LET p1 == IF pattern[1] = BACKSLASH /\ Len(pattern) >= 2
              THEN DropN(pattern, 1) ELSE pattern
    IN  IF ~LiteralMatch(p1[1], string[1], case)
        THEN RFalse
        ELSE Advance(p1, DropN(string, 1), case)

\* fn stringmatch_bytes: one evaluation is the loop from its head.
stringmatch_bytes(pattern, string, case) ==
    IF Len(pattern) = 0 \/ Len(string) = 0
    THEN Finish(pattern, string)
    ELSE IF pattern[1] = STAR THEN StarArm(pattern, string, case)
    ELSE IF pattern[1] = QMARK THEN QuestionArm(pattern, string, case)
    ELSE IF pattern[1] = LBRACKET THEN BracketArm(pattern, string, case)
    ELSE LiteralArm(pattern, string, case)

\* ------------------------------------------------------------------------
\* The calls.  A state is one call: its arguments, and its result once the
\* call has returned.
\* ------------------------------------------------------------------------
VARIABLES pattern, string, case, result, pc

vars == <<pattern, string, case, result, pc>>

MaxPat == 4
MaxStr == 3

\* All sequences over S of length at most n.
SeqsUpTo(S, n) == UNION {[1..k -> S] : k \in 0..n}

\* Arbitrary patterns, well formed or not, over one plain byte and every
\* byte the matcher treats specially at top level or after `[`.
PatternBytes == {97, STAR, QMARK, LBRACKET, RBRACKET, CARET, BACKSLASH, DASH}
SubjectBytes == {97, 98}

Init ==
    /\ pattern \in SeqsUpTo(PatternBytes, MaxPat)
    /\ string \in SeqsUpTo(SubjectBytes, MaxStr)
    /\ case = Sensitive
    /\ result = "none"
    /\ pc = "start"

\* Bracket classes: `[`, an optional `^`, up to MaxMembers members that are
\* single bytes or ranges over ClassBytes, an optional `]`, an optional
\* literal after it.
MaxMembers == 2
MaxClassStr == 2
ClassBytes == {97, 99, 66}
ClassSubjectBytes == {97, 98, 66}

ClassAtoms ==
    {<<m>> : m \in ClassBytes} \cup
    {<<x, DASH, y>> : x \in ClassBytes, y \in ClassBytes}

RECURSIVE ClassBodies(_)
ClassBodies(n) ==
    IF n = 0 THEN {<<>>}
    ELSE ClassBodies(n - 1) \cup
         {a \o b : a \in ClassAtoms, b \in ClassBodies(n - 1)}

ClassPatterns ==
    {<<LBRACKET>> \o neg \o body \o close \o tail :
        neg \in {<<>>, <<CARET>>}, body \in ClassBodies(MaxMembers),
        close \in {<<>>, <<RBRACKET>>}, tail \in {<<>>, <<97>>}}

InitClass ==
    /\ pattern \in ClassPatterns
    /\ string \in SeqsUpTo(ClassSubjectBytes, MaxClassStr)
    /\ case = Sensitive
    /\ result = "none"
    /\ pc = "start"

\* Escapes: a backslash before any byte, at top level between literals or
\* inside a closed bracket class between members, and a backslash as the
\* last byte of the pattern.
MaxEscStr == 3
EscBytes == {97, STAR, QMARK, LBRACKET, BACKSLASH, RBRACKET, DASH}
EscSubjectBytes == EscBytes \cup {98}
EscLits == {<<>>, <<97>>}

EscPatterns ==
    {pre \o <<BACKSLASH, b>> \o suf :
        pre \in EscLits, b \in EscBytes, suf \in EscLits} \cup
    {<<LBRACKET>> \o m1 \o <<BACKSLASH, b>> \o m2 \o <<RBRACKET>> \o suf :
        m1 \in EscLits, b \in EscBytes, m2 \in EscLits, suf \in EscLits} \cup
    {pre \o <<BACKSLASH>> : pre \in SeqsUpTo({97}, 2)}

InitEscape ==
    /\ pattern \in EscPatterns
    /\ string \in SeqsUpTo(EscSubjectBytes, MaxEscStr)
    /\ case = Sensitive
    /\ result = "none"
    /\ pc = "start"

\* pub fn stringmatch: the case-sensitive call.
stringmatch ==
    /\ pc = "start"
    /\ result' = stringmatch_bytes(pattern, string, Sensitive)
    /\ pc' = "done"
    /\ UNCHANGED <<pattern, string, case>>

\* stringmatch_bytes called with Case::Insensitive.
stringmatch_insensitive ==
    /\ pc = "start"
    /\ case' = Insensitive
    /\ result' = stringmatch_bytes(pattern, string, Insensitive)
    /\ pc' = "done"
    /\ UNCHANGED <<pattern, string>>

Next == stringmatch \/ stringmatch_insensitive

Spec == Init /\ [][Next]_vars

SpecClass == InitClass /\ [][Next]_vars

SpecEscape == InitEscape /\ [][Next]_vars

\* ------------------------------------------------------------------------
\* Reference notions the properties are stated with.
\* ------------------------------------------------------------------------
Done == pc = "done"

AsResult(b) == IF b THEN RTrue ELSE RFalse

\* The bytes of a bracket class after `[` and `^`, up to and including the
\* closing `]` (or up to the end of the pattern): an escape is two bytes, a
\* range three, anything else one.
RECURSIVE ClassBodyLen(_)
ClassBodyLen(b) ==
    IF b = <<>> THEN 0
    ELSE IF b[1] = BACKSLASH /\ Len(b) >= 2 THEN 2 + ClassBodyLen(DropN(b, 2))
    ELSE IF b[1] = RBRACKET THEN 1
    ELSE IF Len(b) >= 3 /\ b[2] = DASH THEN 3 + ClassBodyLen(DropN(b, 3))
    ELSE 1 + ClassBodyLen(DropN(b, 1))

\* The length of the top-level token a non-empty pattern starts with.
TokenLen(p) ==
    IF p[1] = BACKSLASH /\ Len(p) >= 2 THEN 2
    ELSE IF p[1] = LBRACKET
    THEN LET h == IF Len(p) >= 2 /\ p[2] = CARET THEN 2 ELSE 1
         IN  h + ClassBodyLen(DropN(p, h))
    ELSE 1

\* The pattern cut into its top-level tokens.
RECURSIVE Tokens(_)
Tokens(p) ==
    IF p = <<>> THEN <<>>
    ELSE <<SubSeq(p, 1, TokenLen(p))>> \o Tokens(DropN(p, TokenLen(p)))

\* The tokens with every `*` that follows a `*` removed, joined again.
RECURSIVE JoinCollapsed(_, _)
JoinCollapsed(toks, afterStar) ==
    IF toks = <<>> THEN <<>>
    ELSE IF toks[1] = <<STAR>>
    THEN (IF afterStar THEN <<>> ELSE <<STAR>>) \o JoinCollapsed(Tail(toks), TRUE)
    ELSE toks[1] \o JoinCollapsed(Tail(toks), FALSE)

Collapsed(p) == JoinCollapsed(Tokens(p), FALSE)

AllStars(p) == \A i \in 1..Len(p) : p[i] = STAR

\* Patterns of literal bytes, `?` and `*` only.
GlobOnly(p) == \A i \in 1..Len(p) : p[i] \notin {LBRACKET, BACKSLASH}

\* Patterns of literal bytes and `?` only.
StarFree(p) == \A i \in 1..Len(p) : p[i] \notin {STAR, LBRACKET, BACKSLASH}

\* The glob relation: a literal is itself, `?` is one byte, `*` is any run
\* of bytes, and the whole subject is consumed.
RECURSIVE RefGlob(_, _)
RefGlob(p, s) ==
    IF p = <<>> THEN s = <<>>
    ELSE IF p[1] = STAR
    THEN \E k \in 0..Len(s) : RefGlob(Tail(p), DropN(s, k))
    ELSE IF p[1] = QMARK
    THEN s # <<>> /\ RefGlob(Tail(p), Tail(s))
    ELSE s # <<>> /\ s[1] = p[1] /\ RefGlob(Tail(p), Tail(s))

\* Position by position: same length, and each pattern byte is `?` or the
\* subject byte.
Positional(p, s) ==
    /\ Len(p) = Len(s)
    /\ \A i \in 1..Len(p) : p[i] = QMARK \/ p[i] = s[i]

HasEmptyClass(p) ==
    \E i \in 1..Len(Tokens(p)) :
        Tokens(p)[i] \in {<<LBRACKET, RBRACKET>>, <<LBRACKET, CARET, RBRACKET>>}

\* A bracket-class pattern of ClassPatterns taken apart.
ClassNegated(p) == Len(p) >= 2 /\ p[2] = CARET
ClassHead(p) == IF ClassNegated(p) THEN 2 ELSE 1
ClassClosed(p) == \E i \in 1..Len(p) : p[i] = RBRACKET
ClassEnd(p) ==
    IF ClassClosed(p)
    THEN CHOOSE i \in 1..Len(p) : p[i] = RBRACKET
    ELSE Len(p) + 1
ClassMembers(p) == SubSeq(p, ClassHead(p) + 1, ClassEnd(p) - 1)
ClassTail(p) == SubSeq(p, ClassEnd(p) + 1, Len(p))

Min(a, b) == IF a <= b THEN a ELSE b
Max(a, b) == IF a <= b THEN b ELSE a

\* Some member of the class body accepts byte c, on byte values.
RECURSIVE RefAccepts(_, _)
RefAccepts(body, c) ==
    IF body = <<>> THEN FALSE
    ELSE IF Len(body) >= 3 /\ body[2] = DASH
    THEN \/ (Min(body[1], body[3]) <= c /\ c <= Max(body[1], body[3]))
         \/ RefAccepts(DropN(body, 3), c)
    ELSE body[1] = c \/ RefAccepts(Tail(body), c)

fold(b) == IF b >= 65 /\ b <= 90 THEN b + 32 ELSE b
FoldSeq(s) == [i \in 1..Len(s) |-> fold(s[i])]

\* Some member of the class body accepts byte c after folding both sides.
RECURSIVE RefAcceptsFold(_, _)
RefAcceptsFold(body, c) ==
    IF body = <<>> THEN FALSE
    ELSE IF Len(body) >= 3 /\ body[2] = DASH
    THEN \/ (Min(fold(body[1]), fold(body[3])) <= fold(c)
              /\ fold(c) <= Max(fold(body[1]), fold(body[3])))
         \/ RefAcceptsFold(DropN(body, 3), c)
    ELSE fold(body[1]) = fold(c) \/ RefAcceptsFold(Tail(body), c)

\* The pattern with every escaping backslash removed.
RECURSIVE Unescaped(_)
Unescaped(p) ==
    IF p = <<>> THEN <<>>
    ELSE IF p[1] = BACKSLASH /\ Len(p) >= 2
    THEN <<p[2]>> \o Unescaped(DropN(p, 2))
    ELSE <<p[1]>> \o Unescaped(Tail(p))

\* A bracket-class pattern of EscPatterns taken apart: the class is the
\* first token, its members are what stands between `[` and the closing `]`.
EscMembers(p) ==
    LET m == Unescaped(SubSeq(p, 2, TokenLen(p) - 1))
    IN  {m[i] : i \in 1..Len(m)}
EscTail(p) == DropN(p, TokenLen(p))

\* ------------------------------------------------------------------------
\* Properties
\* ------------------------------------------------------------------------

\* C1: a non-empty pattern made only of `*` matches every subject, the
\* empty subject included.
C1_StarMatchesAll ==
    (Done /\ pattern # <<>> /\ AllStars(pattern)) => result = RTrue

\* C2: every call returns true or false; no call panics.
C2_Total ==
    Done => result \in {RTrue, RFalse}

\* C3: a pattern with a top-level `[]` or `[^]` matches no subject.
C3_EmptyClassNeverMatches ==
    (Done /\ HasEmptyClass(pattern)) => result = RFalse

\* C4: the call returns what it returns for the pattern with every run of
\* top-level `*` collapsed into one `*`.
C4_CollapseSame ==
    Done => result = stringmatch_bytes(Collapsed(pattern), string, case)

C4_Witness ==
    /\ Done
    /\ Collapsed(pattern) # pattern
    /\ Len(Collapsed(pattern)) >= 2
    /\ result = RTrue

\* C5: in case-sensitive mode a pattern of literal bytes and `?` matches
\* exactly the subjects of its own length that agree with it at every
\* position that is not `?`.
C5_Positional ==
    (Done /\ case = Sensitive /\ StarFree(pattern))
        => result = AsResult(Positional(pattern, string))

C5_Witness ==
    /\ Done /\ case = Sensitive /\ StarFree(pattern)
    /\ Len(pattern) >= 3
    /\ \E i \in 1..Len(pattern) : pattern[i] = QMARK
    /\ \E i \in 1..Len(pattern) : pattern[i] # QMARK
    /\ result = RTrue

\* C10: in case-sensitive mode, on a non-empty subject, a pattern of literal
\* bytes, `?` and `*` matches exactly when the glob relation holds.
C10_GlobReference ==
    (Done /\ case = Sensitive /\ string # <<>> /\ GlobOnly(pattern))
        => result = AsResult(RefGlob(pattern, string))

C10_Witness ==
    /\ Done /\ case = Sensitive /\ GlobOnly(pattern)
    /\ Len(pattern) >= 3 /\ Len(string) >= 3
    /\ pattern[1] # STAR /\ pattern[2] = STAR /\ pattern[3] # STAR
    /\ result = RTrue

\* C6: in case-sensitive mode a closed class with at least one member
\* accepts the subject byte iff some member does (a range in either order),
\* negation inverts that, and the match is true iff the class accepts the
\* first subject byte and the rest of the subject is the rest of the pattern.
C6_ClassSensitive ==
    (Done /\ case = Sensitive /\ ClassClosed(pattern)
          /\ ClassMembers(pattern) # <<>>)
        => result = AsResult(
               /\ string # <<>>
               /\ RefAccepts(ClassMembers(pattern), string[1])
                      # ClassNegated(pattern)
               /\ Tail(string) = ClassTail(pattern))

C6_Witness ==
    /\ Done /\ case = Sensitive /\ ClassClosed(pattern)
    /\ ~ClassNegated(pattern)
    /\ Len(ClassMembers(pattern)) = 3
    /\ ClassMembers(pattern)[2] = DASH
    /\ ClassMembers(pattern)[1] > ClassMembers(pattern)[3]
    /\ ClassTail(pattern) # <<>>
    /\ string # <<>>
    /\ string[1] \notin {ClassMembers(pattern)[1], ClassMembers(pattern)[3]}
    /\ result = RTrue

\* C8: in case-sensitive mode a class without a closing `]` takes the rest
\* of the pattern as its members, and the match is true iff the class
\* accepts the first subject byte and that byte is the last one; otherwise
\* it is false.
C8_Unterminated ==
    (Done /\ case = Sensitive /\ ~ClassClosed(pattern))
        => result = AsResult(
               /\ Len(string) = 1
               /\ RefAccepts(ClassMembers(pattern), string[1])
                      # ClassNegated(pattern))

\* C9: in case-insensitive mode a closed class with at least one member
\* accepts the subject byte iff some member does after folding both sides,
\* ranges included.
C9_ClassInsensitive ==
    (Done /\ case = Insensitive /\ ClassClosed(pattern)
          /\ ClassMembers(pattern) # <<>>)
        => result = AsResult(
               /\ string # <<>>
               /\ RefAcceptsFold(ClassMembers(pattern), string[1])
                      # ClassNegated(pattern)
               /\ FoldSeq(Tail(string)) = FoldSeq(ClassTail(pattern)))

\* C7: in case-sensitive mode a backslash makes the next byte a literal.  At
\* top level the pattern matches exactly the subject that is the pattern
\* without the escaping backslashes (a last backslash stays); inside a class
\* the escaped byte is a member and does not close the class.
C7_Escape ==
    (Done /\ case = Sensitive)
        => IF pattern[1] = LBRACKET
           THEN result = AsResult(
                    /\ string # <<>>
                    /\ string[1] \in EscMembers(pattern)
                    /\ Tail(string) = EscTail(pattern))
           ELSE result = AsResult(string = Unescaped(pattern))

C7_Witness ==
    /\ Done /\ case = Sensitive
    /\ Len(pattern) >= 3
    /\ pattern[1] # LBRACKET
    /\ pattern[2] = BACKSLASH
    /\ pattern[3] = STAR
    /\ Len(pattern) = 4
    /\ result = RTrue

====
